---------------------------- MODULE Spec2Model ----------------------------
(***************************************************************************)
(* Device state reconciliation engine of the Smart Farm backend            *)
(* (src/server.js): device registry (in-memory fallback and Supabase       *)
(* table), telemetry ingest, status messages, pump / mode commands, the    *)
(* liveness sweep and the change notifier (socket.io broadcasts).          *)
(*                                                                         *)
(* JavaScript values are written as their literals: numbers and strings    *)
(* as TLA+ strings ("30", "abc"), undefined as "undefined", booleans as    *)
(* BOOLEAN.  Objects are functions from field names to values, so that a   *)
(* field can be present or missing.  Device ids are the numeric suffix of  *)
(* the id string: device_001 is 1, `device_${Date.now()}` is the clock     *)
(* value.  The descriptive fields name, zone, zoneLabel and ip are never   *)
(* written after creation and are left out of the records.                 *)
(*                                                                         *)
(* In the in-memory mode no handler awaits real I/O, so a handler runs to  *)
(* completion in one step.  With the database every `await supabase...`    *)
(* is a suspension point: the handler is a task whose storage call takes   *)
(* effect, and whose continuation runs, in a later step.                   *)
(***************************************************************************)
EXTENDS Integers, Sequences, FiniteSets, Bags, TLC

\* ---------------------------------------------------------------- bounds
TickMs == 20000           \* granularity of the clock
MaxTicks == 2             \* the clock stops after this many ticks
MaxRequests == 2          \* messages and requests received
MaxTasks == 2             \* requests suspended at a storage call
MaxDelay == 0             \* clock ticks a request may stay suspended
MaxShort == 2             \* samples a long-running history is short of its limit
MaxSweepTicks == 4        \* the clock of a server seen over several sweeps stops after these

\* ------------------------------------------------------ program constants
OFFLINE_TIMEOUT == 20000
CHECK_INTERVAL == 30000
DEFAULT_DEVICE == 1       \* "device_001"
UNKNOWN_DEVICE == DEFAULT_DEVICE + 1   \* "device_002": an id no operation ever registers

Undefined == "undefined"

\* ------------------------------------------------------------ JS objects
Get(o, f) == IF f \in DOMAIN o THEN o[f] ELSE Undefined

\* Object.assign(o, u)
Assign(o, u) ==
    [f \in (DOMAIN o) \cup (DOMAIN u) |-> IF f \in DOMAIN u THEN u[f] ELSE o[f]]

\* JS truthiness of a boolean-or-missing field
Truthy(o, f) == f \in DOMAIN o /\ o[f] = TRUE

\* Array.prototype.findIndex on the id, 1-based; 0 when there is none
FindIndex(devs, id) ==
    IF \E i \in 1..Len(devs) : devs[i].id = id
    THEN CHOOSE i \in 1..Len(devs) :
            /\ devs[i].id = id
            /\ \A j \in 1..(i - 1) : devs[j].id # id
    ELSE 0

RemoveAt(s, i) == [j \in 1..(Len(s) - 1) |-> IF j < i THEN s[j] ELSE s[j + 1]]

\* ------------------------------------------------------------- SQL schema
\* literals a REAL column accepts, and those an INTEGER column accepts
NumberLiterals == {"0", "30", "31", "32.5", "50", "51", "60", "61", "65", "78"}
IntegerLiterals == NumberLiterals \ {"32.5"}

\* the row schema.sql inserts, which is also the literal in memoryDevices
DefaultRow(t) ==
    [id |-> DEFAULT_DEVICE, status |-> "online", temperature |-> "32.5",
     humidity |-> "65", soil_moisture |-> "78", pump_active |-> FALSE,
     mode |-> "auto", last_update |-> t]

mapDeviceFromDB(row) ==
    [id |-> row.id, status |-> row.status, temperature |-> row.temperature,
     humidity |-> row.humidity, soilMoisture |-> row.soil_moisture,
     pumpActive |-> row.pump_active, mode |-> row.mode,
     lastUpdate |-> row.last_update]

\* the column an API field is written to by updateDevice
ColumnOf(f) ==
    CASE f = "soilMoisture" -> "soil_moisture"
      [] f = "pumpActive" -> "pump_active"
      [] OTHER -> f

\* `updates.f !== undefined` for the six fields updateDevice copies
Defined(updates, f) ==
    /\ f \in DOMAIN updates
    /\ (f # "pumpActive" => updates[f] # Undefined)

\* dbUpdates of updateDevice
dbUpdatesOf(updates, t) ==
    LET fields == {f \in {"temperature", "humidity", "soilMoisture",
                          "pumpActive", "status", "mode"} : Defined(updates, f)}
        FieldOf(c) == CHOOSE f \in fields : ColumnOf(f) = c
    IN  [c \in {ColumnOf(f) : f \in fields} \cup {"last_update"} |->
            IF c = "last_update" THEN t ELSE updates[FieldOf(c)]]

\* the column types of schema.sql
TypeChecks(row) ==
    /\ ("temperature" \in DOMAIN row => row.temperature \in NumberLiterals)
    /\ ("humidity" \in DOMAIN row => row.humidity \in NumberLiterals)
    /\ ("soil_moisture" \in DOMAIN row => row.soil_moisture \in IntegerLiterals)

\* ---------------------------------------------------------------- state
VARIABLES
    useDatabase,          \* storage mode, fixed at startup
    memoryDevices,        \* the in-memory array
    dbDevices,            \* table devices, in created_at order
    memorySensorHistory,  \* device id -> samples
    dbSensorHistory,      \* table sensor_history
    deviceLastSeen,       \* device id -> Date.now() of the last telemetry
    mqttConnected,        \* mqttClient && mqttClient.connected
    outbox,               \* messages handed to mqttClient.publish
    events,               \* io.emit broadcasts, in order
    now,                  \* Date.now()
    lastSweep,            \* when the interval timer last fired
    tasks,                \* handlers suspended at a storage call (a bag)
    requests,             \* messages and requests received so far
    lastData,             \* device id -> payload of the last telemetry received
    observer,             \* a dashboard client: its connection and the devices it was sent
    shadow,               \* the in-memory server given the same requests (SpecBoth)
    quiet                 \* ids a sweep set offline that sent no telemetry since (SpecSweeps)

vars == <<useDatabase, memoryDevices, dbDevices, memorySensorHistory,
          dbSensorHistory, deviceLastSeen, mqttConnected, outbox, events,
          now, lastSweep, tasks, requests, lastData, observer, shadow, quiet>>

Init ==
    /\ useDatabase \in BOOLEAN
    /\ now = TickMs
    /\ lastSweep = TickMs
    /\ memoryDevices = <<DefaultRow(TickMs)>>
    /\ dbDevices = IF useDatabase THEN <<DefaultRow(TickMs)>> ELSE <<>>
    /\ memorySensorHistory = <<>>
    /\ dbSensorHistory = <<>>
    /\ deviceLastSeen = <<>>
    /\ mqttConnected = FALSE
    /\ outbox = <<>>
    /\ events = <<>>
    /\ tasks = EmptyBag
    /\ requests = 0
    /\ lastData = <<>>
    /\ observer = [pc |-> "none"]
    /\ shadow = [devices |-> <<DefaultRow(TickMs)>>, events |-> <<>>]
    /\ quiet = {}

\* ------------------------------------------------------------- registry
\* the devices as getDevices / getDevice return them
Registry ==
    IF useDatabase
    THEN [i \in 1..Len(dbDevices) |-> mapDeviceFromDB(dbDevices[i])]
    ELSE memoryDevices

Registered(id) == FindIndex(Registry, id) # 0

\* the record getDevice(id) returns; only used where Registered(id)
getDevice(id) == Registry[FindIndex(Registry, id)]

\* the in-memory update that adds the record it does not find
memUpdate_Upsert(devs, id, updates, t) ==
    LET i == FindIndex(devs, id)
    IN  IF i = 0
        THEN Append(devs, Assign(Assign([id |-> id], updates), [lastUpdate |-> t]))
        ELSE [devs EXCEPT ![i] = Assign(Assign(@, updates), [lastUpdate |-> t])]

\* updateDevice, in-memory branch: Object.assign on the first match
memUpdate(devs, id, updates, t) ==
    LET i == FindIndex(devs, id)
    IN  IF i = 0 THEN devs
        ELSE [devs EXCEPT ![i] = Assign(Assign(@, updates), [lastUpdate |-> t])]

\* updateDevice, database branch: .update(dbUpdates).eq('id', id).single()
\* reports an error when no row matches or a column rejects its value
dbUpdateOk(rows, id, updates, t) ==
    /\ FindIndex(rows, id) # 0
    /\ TypeChecks(dbUpdatesOf(updates, t))

\* the update written as an upsert: a missing row is inserted
dbUpdate_Upsert(rows, id, updates, t) ==
    IF FindIndex(rows, id) # 0
    THEN IF TypeChecks(dbUpdatesOf(updates, t))
         THEN [rows EXCEPT ![FindIndex(rows, id)] = Assign(@, dbUpdatesOf(updates, t))]
         ELSE rows
    ELSE Append(rows, Assign(Assign(DefaultRow(t), [id |-> id]),
                             dbUpdatesOf(updates, t)))

dbUpdate(rows, id, updates, t) ==
    IF dbUpdateOk(rows, id, updates, t)
    THEN [rows EXCEPT ![FindIndex(rows, id)] = Assign(@, dbUpdatesOf(updates, t))]
    ELSE rows

\* what `await updateDevice(id, updates)` resolves to with the database
NullDevice == [null |-> TRUE]

dbUpdated(rows, id, updates, t) ==
    IF dbUpdateOk(rows, id, updates, t)
    THEN mapDeviceFromDB(dbUpdate(rows, id, updates, t)[FindIndex(rows, id)])
    ELSE NullDevice

\* ------------------------------------------------------------- notifier
Emit(kind, payload) == [kind |-> kind, payload |-> payload]

\* one more message or request is received
Receive == requests < MaxRequests /\ requests' = requests + 1

\* requests suspended at a storage call; the callbacks of a sweep are
\* started by the timer and are not counted
Suspended ==
    BagCardinality([t \in {x \in DOMAIN tasks : x.kind # "sweep"} |-> tasks[t]])

\* ticks of the clock a suspended request has seen
Waiting(t) == Assign(t, [waited |-> 0])
Aged(t) == IF t.kind = "sweep" THEN t ELSE [t EXCEPT !.waited = @ + 1]

Suspend(t) == Suspended < MaxTasks /\ tasks' = tasks (+) SetToBag({Waiting(t)})

\* a suspended handler moves on to its next storage call
Continue(t, u) ==
    (tasks (-) SetToBag({t})) (+) SetToBag({Assign(u, [waited |-> t.waited])})

Finish(t) == tasks (-) SetToBag({t})

\* --------------------------------------------------------------- inputs
TelemetryPayloads ==
    { [temperature |-> "30", humidity |-> "60", soilPercent |-> "50"],
      [temperature |-> "31", humidity |-> "61", soilPercent |-> "51",
       pumpActive |-> TRUE],
      [humidity |-> "60", soilPercent |-> "50", pumpActive |-> TRUE],
      [temperature |-> "30", humidity |-> "60", soilPercent |-> "abc"] }

StatusPayloads ==
    { [status |-> "watering"], [status |-> "rebooting"] }

\* ids a message or a request can name
TargetIds ==
    {DEFAULT_DEVICE, UNKNOWN_DEVICE}
        \cup {memoryDevices[i].id : i \in 1..Len(memoryDevices)}
        \cup {dbDevices[i].id : i \in 1..Len(dbDevices)}

\* ------------------------------------------------------------ telemetry
\* the patch handleDeviceData builds from the payload
dataUpdates(data) ==
    [temperature |-> Get(data, "temperature"),
     humidity |-> Get(data, "humidity"),
     soilMoisture |-> Get(data, "soilPercent"),
     pumpActive |-> Truthy(data, "pumpActive"),
     status |-> IF Truthy(data, "pumpActive") THEN "watering" ELSE "online"]

SetLastSeen(seen, id, t) ==
    [x \in (DOMAIN seen) \cup {id} |-> IF x = id THEN t ELSE seen[x]]

HISTORY_LIMIT == 720

\* the in-memory store without its `shift()`
memStore_Unbounded(hist, id, data, t) ==
    LET old == IF id \in DOMAIN hist THEN hist[id] ELSE <<>>
        pushed == Append(old, [timestamp |-> t,
                               temperature |-> Get(data, "temperature"),
                               humidity |-> Get(data, "humidity"),
                               soilMoisture |-> Get(data, "soilPercent")])
    IN  [x \in (DOMAIN hist) \cup {id} |-> IF x = id THEN pushed ELSE hist[x]]

\* storeSensorHistory, in-memory branch
memStore(hist, id, data, t) ==
    LET old == IF id \in DOMAIN hist THEN hist[id] ELSE <<>>
        pushed == Append(old, [timestamp |-> t,
                               temperature |-> Get(data, "temperature"),
                               humidity |-> Get(data, "humidity"),
                               soilMoisture |-> Get(data, "soilPercent")])
        kept == IF Len(pushed) > HISTORY_LIMIT THEN Tail(pushed) ELSE pushed
    IN  [x \in (DOMAIN hist) \cup {id} |-> IF x = id THEN kept ELSE hist[x]]

\* storeSensorHistory, database branch: the inserted row
historyRow(id, data, t) ==
    LET given == {f \in {"temperature", "humidity", "soilPercent"} :
                     Get(data, f) # Undefined}
        col(f) == IF f = "soilPercent" THEN "soil_moisture" ELSE f
        fld(c) == CHOOSE f \in given : col(f) = c
    IN  [c \in {col(f) : f \in given} \cup {"device_id", "pump_active", "recorded_at"} |->
            CASE c = "device_id" -> id
              [] c = "pump_active" -> Truthy(data, "pumpActive")
              [] c = "recorded_at" -> t
              [] OTHER -> data[fld(c)]]

\* the insert fails on a rejected value or a missing devices row
dbStore(hist, rows, id, data, t) ==
    IF FindIndex(rows, id) # 0 /\ TypeChecks(historyRow(id, data, t))
    THEN Append(hist, historyRow(id, data, t))
    ELSE hist

\* ------------------------------------------------------- history query
\* Array.prototype.slice(start) on a sequence
slice(s, start) ==
    LET from == IF start < 0
                THEN (IF Len(s) + start < 0 THEN 0 ELSE Len(s) + start)
                ELSE (IF start > Len(s) THEN Len(s) ELSE start)
    IN  SubSeq(s, from + 1, Len(s))

Reverse(s) == [i \in 1..Len(s) |-> s[Len(s) + 1 - i]]

\* a start or end date that was not given (`startDate || null`)
NoDate == 0

\* getSensorHistory, in-memory branch
memHistory(hist, id, limit, startDate, endDate) ==
    LET history == IF id \in DOMAIN hist THEN hist[id] ELSE <<>>
        inRange(h) == /\ ~(startDate # NoDate /\ h.timestamp < startDate)
                      /\ ~(endDate # NoDate /\ h.timestamp > endDate)
        filtered == IF startDate # NoDate \/ endDate # NoDate
                    THEN SelectSeq(history, inRange)
                    ELSE history
    IN  slice(filtered, -limit)

\* getSensorHistory, database branch: the rows of the device in the range,
\* newest first, cut at the limit, mapped and reversed; rows are kept in
\* insertion order, which is the order of recorded_at
dbHistory(rows, id, limit, startDate, endDate) ==
    LET matches(h) == /\ h.device_id = id
                      /\ (startDate # NoDate => h.recorded_at >= startDate)
                      /\ (endDate # NoDate => h.recorded_at <= endDate)
        newestFirst == Reverse(SelectSeq(rows, matches))
        cut == SubSeq(newestFirst, 1,
                      IF limit < Len(newestFirst) THEN limit ELSE Len(newestFirst))
        mapped == [i \in 1..Len(cut) |->
                     [timestamp |-> cut[i].recorded_at,
                      temperature |-> Get(cut[i], "temperature"),
                      humidity |-> Get(cut[i], "humidity"),
                      soilMoisture |-> Get(cut[i], "soil_moisture")]]
    IN  Reverse(mapped)

\* getSensorHistory(deviceId, {limit, startDate, endDate}) as the route
\* GET /api/devices/:id/history calls it with a limit that was given
getSensorHistory(id, limit, startDate, endDate) ==
    IF useDatabase
    THEN dbHistory(dbSensorHistory, id, limit, startDate, endDate)
    ELSE memHistory(memorySensorHistory, id, limit, startDate, endDate)

\* handleDeviceData(deviceId, data), up to its first storage call
handleDeviceData(id, data) ==
    /\ Receive
    /\ lastData' = [x \in (DOMAIN lastData) \cup {id} |->
                        IF x = id THEN data ELSE lastData[x]]
    /\ deviceLastSeen' = SetLastSeen(deviceLastSeen, id, now)
    /\ IF useDatabase
       THEN /\ Suspend([kind |-> "data", pc |-> "update", id |-> id,
                        data |-> data, at |-> now])
            /\ UNCHANGED <<memoryDevices, memorySensorHistory, events>>
       ELSE /\ tasks' = tasks
            /\ memoryDevices' = memUpdate(memoryDevices, id, dataUpdates(data), now)
            /\ IF FindIndex(memoryDevices, id) # 0
               THEN /\ memorySensorHistory' =
                           memStore(memorySensorHistory, id, data, now)
                    /\ events' = Append(events, Emit("deviceUpdate",
                           memoryDevices'[FindIndex(memoryDevices, id)]))
               ELSE UNCHANGED <<memorySensorHistory, events>>
    /\ UNCHANGED <<useDatabase, dbDevices, dbSensorHistory, mqttConnected,
                   outbox, now, lastSweep, observer>>

\* handleDeviceData resumed after `await updateDevice(...)`
handleDeviceData_updated(t) ==
    /\ BagIn(t, tasks) /\ t.kind = "data" /\ t.pc = "update"
    /\ dbDevices' = dbUpdate(dbDevices, t.id, dataUpdates(t.data), t.at)
    /\ tasks' = IF dbUpdateOk(dbDevices, t.id, dataUpdates(t.data), t.at)
                THEN Continue(t, [kind |-> "data", pc |-> "store", id |-> t.id,
                        data |-> t.data,
                        device |-> dbUpdated(dbDevices, t.id, dataUpdates(t.data), t.at)])
                ELSE Finish(t)
    /\ UNCHANGED <<useDatabase, memoryDevices, memorySensorHistory,
                   dbSensorHistory, deviceLastSeen, mqttConnected, outbox,
                   events, now, lastSweep, requests, lastData, observer>>

\* handleDeviceData resumed after `await storeSensorHistory(...)`
handleDeviceData_stored(t) ==
    /\ BagIn(t, tasks) /\ t.kind = "data" /\ t.pc = "store"
    /\ dbSensorHistory' = dbStore(dbSensorHistory, dbDevices, t.id, t.data, now)
    /\ events' = Append(events, Emit("deviceUpdate", t.device))
    /\ tasks' = Finish(t)
    /\ UNCHANGED <<useDatabase, memoryDevices, dbDevices, memorySensorHistory,
                   deviceLastSeen, mqttConnected, outbox, now, lastSweep,
                   requests, lastData, observer>>

\* ------------------------------------------------------- status messages
\* handleDeviceStatus(deviceId, data)
handleDeviceStatus(id, data) ==
    /\ Receive
    /\ UNCHANGED <<lastData, observer>>
    /\ IF useDatabase
       THEN /\ Suspend([kind |-> "status", pc |-> "update", id |-> id,
                        data |-> data, at |-> now])
            /\ UNCHANGED <<memoryDevices, events>>
       ELSE /\ tasks' = tasks
            /\ memoryDevices' = memUpdate(memoryDevices, id,
                                    [status |-> Get(data, "status")], now)
            /\ events' = IF FindIndex(memoryDevices, id) # 0
                         THEN Append(events, Emit("deviceUpdate",
                                    memoryDevices'[FindIndex(memoryDevices, id)]))
                         ELSE events
    /\ UNCHANGED <<useDatabase, dbDevices, memorySensorHistory, dbSensorHistory,
                   deviceLastSeen, mqttConnected, outbox, now, lastSweep>>

\* handleDeviceStatus resumed after `await updateDevice(...)`
handleDeviceStatus_updated(t) ==
    /\ BagIn(t, tasks) /\ t.kind = "status" /\ t.pc = "update"
    /\ dbDevices' = dbUpdate(dbDevices, t.id, [status |-> Get(t.data, "status")], t.at)
    /\ events' = IF dbUpdateOk(dbDevices, t.id, [status |-> Get(t.data, "status")], t.at)
                 THEN Append(events, Emit("deviceUpdate",
                         dbUpdated(dbDevices, t.id, [status |-> Get(t.data, "status")], t.at)))
                 ELSE events
    /\ tasks' = Finish(t)
    /\ UNCHANGED <<useDatabase, memoryDevices, memorySensorHistory,
                   dbSensorHistory, deviceLastSeen, mqttConnected, outbox,
                   now, lastSweep, requests, lastData, observer>>

\* ------------------------------------------------------- liveness sweep
\* the check without its `lastSeen &&` guard: a missing entry reads as 0
Silent_Unguarded(id) ==
    now - (IF id \in DOMAIN deviceLastSeen THEN deviceLastSeen[id] ELSE 0)
        > OFFLINE_TIMEOUT

\* `lastSeen && (now - lastSeen) > OFFLINE_TIMEOUT`
Silent(id) ==
    /\ id \in DOMAIN deviceLastSeen
    /\ deviceLastSeen[id] # 0
    /\ now - deviceLastSeen[id] > OFFLINE_TIMEOUT

ShouldDemote(device) == Silent(device.id) /\ device.status # "offline"

Offline(device) == [device EXCEPT !.status = "offline"]

\* checkOfflineDevices(), fired by setInterval: the synchronous part of
\* every callback of memoryDevices.forEach
checkOfflineDevices ==
    LET demoted == SelectSeq(memoryDevices, ShouldDemote)
    IN  /\ now - lastSweep >= CHECK_INTERVAL
        /\ lastSweep' = now
        /\ memoryDevices' = [i \in 1..Len(memoryDevices) |->
                                IF ShouldDemote(memoryDevices[i])
                                THEN Offline(memoryDevices[i])
                                ELSE memoryDevices[i]]
        /\ IF useDatabase
           THEN /\ tasks' = tasks (+) SetToBag(
                      {[kind |-> "sweep", pc |-> "update", id |-> demoted[i].id,
                        at |-> now] : i \in 1..Len(demoted)})
                /\ events' = events
           ELSE /\ tasks' = tasks
                /\ events' = events \o [i \in 1..Len(demoted) |->
                                Emit("deviceUpdate", Offline(demoted[i]))]
        /\ UNCHANGED <<useDatabase, dbDevices, memorySensorHistory,
                       dbSensorHistory, deviceLastSeen, mqttConnected,
                       outbox, now, requests, lastData, observer>>

\* a callback of the sweep resumed after `await supabase...update(...)`:
\* the update matches zero or one row and its result is not read
checkOfflineDevices_updated(t) ==
    /\ BagIn(t, tasks) /\ t.kind = "sweep" /\ t.pc = "update"
    /\ dbDevices' = dbUpdate(dbDevices, t.id, [status |-> "offline"], t.at)
    /\ events' = Append(events, Emit("deviceUpdate",
                     Offline(memoryDevices[FindIndex(memoryDevices, t.id)])))
    /\ tasks' = Finish(t)
    /\ UNCHANGED <<useDatabase, memoryDevices, memorySensorHistory,
                   dbSensorHistory, deviceLastSeen, mqttConnected, outbox,
                   now, lastSweep, requests, lastData, observer>>

\* ------------------------------------------------------------- commands
PumpActions == {"on", "off"}
ModeValues == {"manual", "turbo"}

\* the publish without its connectivity guard
Publish_Unguarded(box, connected, id, payload) ==
    Append(box, [id |-> id, payload |-> payload])

\* mqttClient.publish(`smartfarm/${id}/command`, JSON.stringify(payload)),
\* guarded by `mqttClient && mqttClient.connected`
Publish(box, connected, id, payload) ==
    IF connected THEN Append(box, [id |-> id, payload |-> payload]) ELSE box

\* the patch with the status left at online
pumpUpdates_StatusOnline(action) ==
    [pumpActive |-> (action = "on"), status |-> "online"]

\* the patch of a pump command
pumpUpdates(action) ==
    [pumpActive |-> (action = "on"),
     status |-> IF action = "on" THEN "watering" ELSE "online"]

\* POST /api/devices/:id/pump
postPump(id, action) ==
    /\ Receive
    /\ UNCHANGED <<lastData, observer>>
    /\ IF useDatabase
       THEN /\ Suspend([kind |-> "pump", pc |-> "get", id |-> id,
                        action |-> action])
            /\ UNCHANGED <<memoryDevices, outbox, events>>
       ELSE /\ tasks' = tasks
            /\ IF FindIndex(memoryDevices, id) # 0
               THEN /\ outbox' = Publish(outbox, mqttConnected, id,
                                         [pump |-> (action = "on")])
                    /\ memoryDevices' =
                          memUpdate(memoryDevices, id, pumpUpdates(action), now)
                    /\ events' = Append(events, Emit("deviceUpdate",
                                    memoryDevices'[FindIndex(memoryDevices, id)]))
               ELSE UNCHANGED <<memoryDevices, outbox, events>>
    /\ UNCHANGED <<useDatabase, dbDevices, memorySensorHistory, dbSensorHistory,
                   deviceLastSeen, mqttConnected, now, lastSweep>>

\* the pump route resumed after `await getDevice(...)`
postPump_found(t) ==
    /\ BagIn(t, tasks) /\ t.kind = "pump" /\ t.pc = "get"
    /\ IF FindIndex(dbDevices, t.id) = 0
       THEN /\ tasks' = Finish(t)
            /\ outbox' = outbox
       ELSE /\ outbox' = Publish(outbox, mqttConnected, t.id,
                                 [pump |-> (t.action = "on")])
            /\ tasks' = Continue(t, [kind |-> "pump", pc |-> "update",
                             id |-> t.id, action |-> t.action, at |-> now])
    /\ UNCHANGED <<useDatabase, memoryDevices, dbDevices, memorySensorHistory,
                   dbSensorHistory, deviceLastSeen, mqttConnected, events,
                   now, lastSweep, requests, lastData, observer>>

\* the pump route resumed after `await updateDevice(...)`: the broadcast
\* is not guarded by the result
postPump_updated(t) ==
    /\ BagIn(t, tasks) /\ t.kind = "pump" /\ t.pc = "update"
    /\ dbDevices' = dbUpdate(dbDevices, t.id, pumpUpdates(t.action), t.at)
    /\ events' = Append(events, Emit("deviceUpdate",
                     dbUpdated(dbDevices, t.id, pumpUpdates(t.action), t.at)))
    /\ tasks' = Finish(t)
    /\ UNCHANGED <<useDatabase, memoryDevices, memorySensorHistory,
                   dbSensorHistory, deviceLastSeen, mqttConnected, outbox,
                   now, lastSweep, requests, lastData, observer>>

\* the patch that also puts the status back to online
modeUpdates_StatusOnline(mode) == [mode |-> mode, status |-> "online"]

\* the patch of a mode command
modeUpdates(mode) == [mode |-> mode]

\* POST /api/devices/:id/mode
postMode(id, mode) ==
    /\ Receive
    /\ UNCHANGED <<lastData, observer>>
    /\ IF useDatabase
       THEN /\ Suspend([kind |-> "mode", pc |-> "get", id |-> id,
                        mode |-> mode])
            /\ UNCHANGED <<memoryDevices, outbox, events>>
       ELSE /\ tasks' = tasks
            /\ IF FindIndex(memoryDevices, id) # 0
               THEN /\ outbox' = Publish(outbox, mqttConnected, id, [mode |-> mode])
                    /\ memoryDevices' =
                          memUpdate(memoryDevices, id, modeUpdates(mode), now)
                    /\ events' = Append(events, Emit("deviceUpdate",
                                    memoryDevices'[FindIndex(memoryDevices, id)]))
               ELSE UNCHANGED <<memoryDevices, outbox, events>>
    /\ UNCHANGED <<useDatabase, dbDevices, memorySensorHistory, dbSensorHistory,
                   deviceLastSeen, mqttConnected, now, lastSweep>>

\* the mode route resumed after `await getDevice(...)`
postMode_found(t) ==
    /\ BagIn(t, tasks) /\ t.kind = "mode" /\ t.pc = "get"
    /\ IF FindIndex(dbDevices, t.id) = 0
       THEN /\ tasks' = Finish(t)
            /\ outbox' = outbox
       ELSE /\ outbox' = Publish(outbox, mqttConnected, t.id, [mode |-> t.mode])
            /\ tasks' = Continue(t, [kind |-> "mode", pc |-> "update",
                             id |-> t.id, mode |-> t.mode, at |-> now])
    /\ UNCHANGED <<useDatabase, memoryDevices, dbDevices, memorySensorHistory,
                   dbSensorHistory, deviceLastSeen, mqttConnected, events,
                   now, lastSweep, requests, lastData, observer>>

\* the mode route resumed after `await updateDevice(...)`
postMode_updated(t) ==
    /\ BagIn(t, tasks) /\ t.kind = "mode" /\ t.pc = "update"
    /\ dbDevices' = dbUpdate(dbDevices, t.id, modeUpdates(t.mode), t.at)
    /\ events' = Append(events, Emit("deviceUpdate",
                     dbUpdated(dbDevices, t.id, modeUpdates(t.mode), t.at)))
    /\ tasks' = Finish(t)
    /\ UNCHANGED <<useDatabase, memoryDevices, memorySensorHistory,
                   dbSensorHistory, deviceLastSeen, mqttConnected, outbox,
                   now, lastSweep, requests, lastData, observer>>

\* socket.on('pumpControl'): publishes before, and without, any lookup
pumpControl(id, action) ==
    /\ Receive
    /\ UNCHANGED <<lastData, observer>>
    /\ outbox' = Publish(outbox, mqttConnected, id, [pump |-> (action = "on")])
    /\ IF useDatabase
       THEN /\ Suspend([kind |-> "socket", pc |-> "update", id |-> id,
                        action |-> action, at |-> now])
            /\ UNCHANGED <<memoryDevices, events>>
       ELSE /\ tasks' = tasks
            /\ memoryDevices' = memUpdate(memoryDevices, id, pumpUpdates(action), now)
            /\ events' = IF FindIndex(memoryDevices, id) # 0
                         THEN Append(events, Emit("deviceUpdate",
                                    memoryDevices'[FindIndex(memoryDevices, id)]))
                         ELSE events
    /\ UNCHANGED <<useDatabase, dbDevices, memorySensorHistory, dbSensorHistory,
                   deviceLastSeen, mqttConnected, now, lastSweep>>

\* the pumpControl listener resumed after `await updateDevice(...)`
pumpControl_updated(t) ==
    /\ BagIn(t, tasks) /\ t.kind = "socket" /\ t.pc = "update"
    /\ dbDevices' = dbUpdate(dbDevices, t.id, pumpUpdates(t.action), t.at)
    /\ events' = IF dbUpdateOk(dbDevices, t.id, pumpUpdates(t.action), t.at)
                 THEN Append(events, Emit("deviceUpdate",
                         dbUpdated(dbDevices, t.id, pumpUpdates(t.action), t.at)))
                 ELSE events
    /\ tasks' = Finish(t)
    /\ UNCHANGED <<useDatabase, memoryDevices, memorySensorHistory,
                   dbSensorHistory, deviceLastSeen, mqttConnected, outbox,
                   now, lastSweep, requests, lastData, observer>>

\* the broker connection comes and goes ('connect', 'close')
mqttConnect ==
    /\ mqttConnected' = ~mqttConnected
    /\ UNCHANGED <<useDatabase, memoryDevices, dbDevices, memorySensorHistory,
                   dbSensorHistory, deviceLastSeen, outbox, events, now,
                   lastSweep, tasks, requests, lastData, observer>>

\* ------------------------------------------------ registration, removal
\* newDevice of POST /api/devices
newDevice(t) ==
    [id |-> t, status |-> "offline", temperature |-> "0", humidity |-> "0",
     soilMoisture |-> "0", pumpActive |-> FALSE, mode |-> "auto"]

\* mapDeviceToDB; every `||` default equals the value newDevice gives, and
\* last_update is the column default NOW()
mapDeviceToDB(device, t) ==
    [id |-> device.id, status |-> device.status,
     temperature |-> device.temperature, humidity |-> device.humidity,
     soil_moisture |-> device.soilMoisture, pump_active |-> device.pumpActive,
     mode |-> device.mode, last_update |-> t]

\* POST /api/devices
postDevices ==
    /\ Receive
    /\ UNCHANGED <<lastData, observer>>
    /\ IF useDatabase
       THEN /\ Suspend([kind |-> "create", pc |-> "insert",
                        device |-> newDevice(now)])
            /\ UNCHANGED <<memoryDevices, events>>
       ELSE /\ tasks' = tasks
            /\ memoryDevices' = Append(memoryDevices, newDevice(now))
            /\ events' = Append(events, Emit("deviceAdded", newDevice(now)))
    /\ UNCHANGED <<useDatabase, dbDevices, memorySensorHistory, dbSensorHistory,
                   deviceLastSeen, mqttConnected, outbox, now, lastSweep>>

\* the create route resumed after `await createDevice(...)`: the insert
\* fails on the primary key
postDevices_created(t) ==
    /\ BagIn(t, tasks) /\ t.kind = "create" /\ t.pc = "insert"
    /\ IF FindIndex(dbDevices, t.device.id) = 0
       THEN /\ dbDevices' = Append(dbDevices, mapDeviceToDB(t.device, now))
            /\ events' = Append(events, Emit("deviceAdded",
                             mapDeviceFromDB(mapDeviceToDB(t.device, now))))
       ELSE UNCHANGED <<dbDevices, events>>
    /\ tasks' = Finish(t)
    /\ UNCHANGED <<useDatabase, memoryDevices, memorySensorHistory,
                   dbSensorHistory, deviceLastSeen, mqttConnected, outbox,
                   now, lastSweep, requests, lastData, observer>>

\* DELETE /api/devices/:id
deleteDevices(id) ==
    /\ Receive
    /\ UNCHANGED <<lastData, observer>>
    /\ IF useDatabase
       THEN /\ Suspend([kind |-> "delete", pc |-> "get", id |-> id])
            /\ UNCHANGED <<memoryDevices, events>>
       ELSE /\ tasks' = tasks
            /\ IF FindIndex(memoryDevices, id) # 0
               THEN /\ memoryDevices' =
                          RemoveAt(memoryDevices, FindIndex(memoryDevices, id))
                    /\ events' = Append(events, Emit("deviceDeleted", [id |-> id]))
               ELSE UNCHANGED <<memoryDevices, events>>
    /\ UNCHANGED <<useDatabase, dbDevices, memorySensorHistory, dbSensorHistory,
                   deviceLastSeen, mqttConnected, outbox, now, lastSweep>>

\* the delete route resumed after `await getDevice(...)`
deleteDevices_found(t) ==
    /\ BagIn(t, tasks) /\ t.kind = "delete" /\ t.pc = "get"
    /\ tasks' = IF FindIndex(dbDevices, t.id) = 0
                THEN Finish(t)
                ELSE Continue(t, [kind |-> "delete", pc |-> "delete", id |-> t.id])
    /\ UNCHANGED <<useDatabase, memoryDevices, dbDevices, memorySensorHistory,
                   dbSensorHistory, deviceLastSeen, mqttConnected, outbox,
                   events, now, lastSweep, requests, lastData, observer>>

\* the delete route resumed after `await deleteDevice(...)`; sensor_history
\* rows go with the device (ON DELETE CASCADE)
deleteDevices_deleted(t) ==
    /\ BagIn(t, tasks) /\ t.kind = "delete" /\ t.pc = "delete"
    /\ dbDevices' = SelectSeq(dbDevices, LAMBDA r : r.id # t.id)
    /\ dbSensorHistory' = SelectSeq(dbSensorHistory, LAMBDA h : h.device_id # t.id)
    /\ events' = Append(events, Emit("deviceDeleted", [id |-> t.id]))
    /\ tasks' = Finish(t)
    /\ UNCHANGED <<useDatabase, memoryDevices, memorySensorHistory,
                   deviceLastSeen, mqttConnected, outbox, now, lastSweep,
                   requests, lastData, observer>>

\* ------------------------------------------------------------ the clock
\* time passes, as far as the bound lets it
Advance(ticks) ==
    /\ now < TickMs * (ticks + 1)
    /\ \A t \in BagToSet(tasks) : t.kind # "sweep" => t.waited < MaxDelay
    /\ now' = now + TickMs
    /\ tasks' = BagOfAll(Aged, tasks)
    /\ UNCHANGED <<useDatabase, memoryDevices, dbDevices, memorySensorHistory,
                   dbSensorHistory, deviceLastSeen, mqttConnected, outbox,
                   events, lastSweep, requests, lastData, observer>>

Tick == Advance(MaxTicks)

\* -------------------------------------------------------- specification
Resume(t) ==
    \/ handleDeviceData_updated(t)
    \/ handleDeviceData_stored(t)
    \/ handleDeviceStatus_updated(t)
    \/ checkOfflineDevices_updated(t)
    \/ postPump_found(t)
    \/ postPump_updated(t)
    \/ postMode_found(t)
    \/ postMode_updated(t)
    \/ pumpControl_updated(t)
    \/ postDevices_created(t)
    \/ deleteDevices_found(t)
    \/ deleteDevices_deleted(t)

Next ==
    \/ (\E id \in TargetIds, data \in TelemetryPayloads : handleDeviceData(id, data))
            /\ UNCHANGED <<shadow, quiet>>
    \/ (\E id \in TargetIds, data \in StatusPayloads : handleDeviceStatus(id, data))
            /\ UNCHANGED <<shadow, quiet>>
    \/ (\E id \in TargetIds, action \in PumpActions : postPump(id, action))
            /\ UNCHANGED <<shadow, quiet>>
    \/ (\E id \in TargetIds, mode \in ModeValues : postMode(id, mode))
            /\ UNCHANGED <<shadow, quiet>>
    \/ (\E id \in TargetIds, action \in PumpActions : pumpControl(id, action))
            /\ UNCHANGED <<shadow, quiet>>
    \/ postDevices /\ UNCHANGED <<shadow, quiet>>
    \/ (\E id \in TargetIds : deleteDevices(id)) /\ UNCHANGED <<shadow, quiet>>
    \/ checkOfflineDevices /\ UNCHANGED <<shadow, quiet>>
    \/ mqttConnect /\ UNCHANGED <<shadow, quiet>>
    \/ Tick /\ UNCHANGED <<shadow, quiet>>
    \/ (\E t \in BagToSet(tasks) : Resume(t)) /\ UNCHANGED <<shadow, quiet>>

Spec == Init /\ [][Next]_vars

\* ------------------------------------------------------- storage errors
\* the insert of storeSensorHistory that throws instead of reporting
handleDeviceData_storeFailed_Thrown(t) ==
    /\ BagIn(t, tasks) /\ t.kind = "data" /\ t.pc = "store"
    /\ tasks' = Finish(t)
    /\ UNCHANGED <<useDatabase, memoryDevices, dbDevices, memorySensorHistory,
                   dbSensorHistory, deviceLastSeen, mqttConnected, outbox,
                   events, now, lastSweep, requests, lastData, observer>>

\* handleDeviceData resumed after `await storeSensorHistory(...)` when the
\* insert reports an error (service unreachable, request rejected): the
\* error is logged and the handler goes on
handleDeviceData_storeFailed(t) ==
    /\ BagIn(t, tasks) /\ t.kind = "data" /\ t.pc = "store"
    /\ events' = Append(events, Emit("deviceUpdate", t.device))
    /\ tasks' = Finish(t)
    /\ UNCHANGED <<useDatabase, memoryDevices, dbDevices, memorySensorHistory,
                   dbSensorHistory, deviceLastSeen, mqttConnected, outbox,
                   now, lastSweep, requests, lastData, observer>>

\* ------------------------------------------- a long-running history
\* the in-memory server after device_001 has reported n times, once every
\* millisecond from its start; the broadcasts made so far are not kept
InitHistory ==
    \E n \in {HISTORY_LIMIT - k : k \in 0..MaxShort} :
        LET first == CHOOSE data \in TelemetryPayloads :
                        DOMAIN data = {"temperature", "humidity", "soilPercent"}
                                /\ data.soilPercent \in IntegerLiterals
        IN  /\ useDatabase = FALSE
            /\ now = TickMs
            /\ lastSweep = TickMs
            /\ memoryDevices = memUpdate(<<DefaultRow(TickMs)>>, DEFAULT_DEVICE,
                                         dataUpdates(first), n)
            /\ dbDevices = <<>>
            /\ memorySensorHistory =
                  [id \in {DEFAULT_DEVICE} |->
                      [i \in 1..n |->
                          [timestamp |-> i,
                           temperature |-> first.temperature,
                           humidity |-> first.humidity,
                           soilMoisture |-> first.soilPercent]]]
            /\ dbSensorHistory = <<>>
            /\ deviceLastSeen = [id \in {DEFAULT_DEVICE} |-> n]
            /\ mqttConnected = FALSE
            /\ outbox = <<>>
            /\ events = <<>>
            /\ tasks = EmptyBag
            /\ requests = 0
            /\ lastData = [id \in {DEFAULT_DEVICE} |-> first]
            /\ observer = [pc |-> "none"]
            /\ shadow = [devices |-> <<DefaultRow(TickMs)>>, events |-> <<>>]
            /\ quiet = {}

NextHistory ==
    \/ (\E id \in TargetIds, data \in TelemetryPayloads : handleDeviceData(id, data))
            /\ UNCHANGED <<shadow, quiet>>
    \/ Tick /\ UNCHANGED <<shadow, quiet>>

SpecHistory == InitHistory /\ [][NextHistory]_vars

\* ------------------------------------------------------------ observers
\* io.on('connection'): the socket is connected, and receives broadcasts,
\* from here on; with the in-memory store `await getDevices()` does not
\* wait for I/O and initialData follows at once
connection ==
    /\ observer.pc = "none"
    /\ observer' = IF useDatabase
                   THEN [pc |-> "list"]
                   ELSE [pc |-> "live", devices |-> memoryDevices,
                         at |-> Len(events)]
    /\ UNCHANGED <<useDatabase, memoryDevices, dbDevices, memorySensorHistory,
                   dbSensorHistory, deviceLastSeen, mqttConnected, outbox,
                   events, now, lastSweep, tasks, requests, lastData>>

\* the select of getDevices is executed by the database
connection_listed ==
    /\ observer.pc = "list"
    /\ observer' = [pc |-> "emit", devices |-> Registry]
    /\ UNCHANGED <<useDatabase, memoryDevices, dbDevices, memorySensorHistory,
                   dbSensorHistory, deviceLastSeen, mqttConnected, outbox,
                   events, now, lastSweep, tasks, requests, lastData>>

\* its response arrives: socket.emit('initialData', { devices })
connection_emitted ==
    /\ observer.pc = "emit"
    /\ observer' = [pc |-> "live", devices |-> observer.devices,
                    at |-> Len(events)]
    /\ UNCHANGED <<useDatabase, memoryDevices, dbDevices, memorySensorHistory,
                   dbSensorHistory, deviceLastSeen, mqttConnected, outbox,
                   events, now, lastSweep, tasks, requests, lastData>>

\* the client's listeners for deviceUpdate, deviceAdded and deviceDeleted;
\* the deviceUpdate listener throws on a null payload and changes nothing
onEvent(devices, e) ==
    CASE e.kind = "deviceUpdate" ->
            IF "id" \in DOMAIN e.payload /\ FindIndex(devices, e.payload.id) # 0
            THEN [devices EXCEPT ![FindIndex(devices, e.payload.id)] = e.payload]
            ELSE devices
      [] e.kind = "deviceAdded" -> Append(devices, e.payload)
      [] e.kind = "deviceDeleted" ->
            SelectSeq(devices, LAMBDA d : d.id # e.payload.id)

RECURSIVE onEvents(_, _, _)
onEvents(devices, evs, k) ==
    IF k > Len(evs) THEN devices
    ELSE onEvents(onEvent(devices, evs[k]), evs, k + 1)

\* `devices` of a client that got initialData and every broadcast since
clientDevices == onEvents(observer.devices, events, observer.at + 1)

NextObserver ==
    \/ Next
    \/ connection /\ UNCHANGED <<shadow, quiet>>
    \/ connection_listed /\ UNCHANGED <<shadow, quiet>>
    \/ connection_emitted /\ UNCHANGED <<shadow, quiet>>

SpecObserver == Init /\ [][NextObserver]_vars

NextFault ==
    \/ Next
    \/ (\E t \in BagToSet(tasks) : handleDeviceData_storeFailed(t))
            /\ UNCHANGED <<shadow, quiet>>

SpecFault == Init /\ [][NextFault]_vars

\* ------------------------------------------ the two modes side by side
\* what a handler of the in-memory server does to its devices and its
\* broadcasts: updateDevice and, when it returned a device, io.emit
memApply(sh, id, updates, t) ==
    [devices |-> memUpdate(sh.devices, id, updates, t),
     events |-> IF FindIndex(sh.devices, id) # 0
                THEN Append(sh.events, Emit("deviceUpdate",
                        memUpdate(sh.devices, id, updates, t)[FindIndex(sh.devices, id)]))
                ELSE sh.events]

\* POST /api/devices of the in-memory server
memCreate(sh, t) ==
    [devices |-> Append(sh.devices, newDevice(t)),
     events |-> Append(sh.events, Emit("deviceAdded", newDevice(t)))]

\* DELETE /api/devices/:id of the in-memory server
memDelete(sh, id) ==
    IF FindIndex(sh.devices, id) # 0
    THEN [devices |-> RemoveAt(sh.devices, FindIndex(sh.devices, id)),
          events |-> Append(sh.events, Emit("deviceDeleted", [id |-> id]))]
    ELSE sh

\* checkOfflineDevices of the in-memory server; deviceLastSeen is written
\* the same way in both modes
memSweep(sh) ==
    LET demoted == SelectSeq(sh.devices, ShouldDemote)
    IN  [devices |-> [i \in 1..Len(sh.devices) |->
                         IF ShouldDemote(sh.devices[i])
                         THEN Offline(sh.devices[i]) ELSE sh.devices[i]],
         events |-> sh.events \o [i \in 1..Len(demoted) |->
                                     Emit("deviceUpdate", Offline(demoted[i]))]]

\* the server with the database, and the in-memory server receiving the
\* same requests at the same times
NextBoth ==
    \/ \E id \in TargetIds, data \in TelemetryPayloads :
          /\ handleDeviceData(id, data)
          /\ shadow' = memApply(shadow, id, dataUpdates(data), now) /\ UNCHANGED quiet
    \/ \E id \in TargetIds, data \in StatusPayloads :
          /\ handleDeviceStatus(id, data)
          /\ shadow' = memApply(shadow, id, [status |-> Get(data, "status")], now)
          /\ UNCHANGED quiet
    \/ \E id \in TargetIds, action \in PumpActions :
          /\ postPump(id, action) \/ pumpControl(id, action)
          /\ shadow' = memApply(shadow, id, pumpUpdates(action), now) /\ UNCHANGED quiet
    \/ \E id \in TargetIds, mode \in ModeValues :
          /\ postMode(id, mode)
          /\ shadow' = memApply(shadow, id, modeUpdates(mode), now) /\ UNCHANGED quiet
    \/ postDevices /\ shadow' = memCreate(shadow, now) /\ UNCHANGED quiet
    \/ \E id \in TargetIds :
          deleteDevices(id) /\ shadow' = memDelete(shadow, id) /\ UNCHANGED quiet
    \/ checkOfflineDevices /\ shadow' = memSweep(shadow) /\ UNCHANGED quiet
    \/ Tick /\ UNCHANGED <<shadow, quiet>>
    \/ (\E t \in BagToSet(tasks) : Resume(t)) /\ UNCHANGED <<shadow, quiet>>

InitBoth == Init /\ useDatabase

SpecBoth == InitBoth /\ [][NextBoth]_vars

\* -------------------------------------- the server over several sweeps
\* the ids the sweep that fires now sets offline
demotedIds ==
    {memoryDevices[i].id :
        i \in {j \in 1..Len(memoryDevices) : ShouldDemote(memoryDevices[j])}}

\* the server watched for longer, so that the interval timer fires more than
\* once; quiet records which devices a sweep set offline and have been
\* silent since
NextSweeps ==
    \/ \E id \in TargetIds, data \in TelemetryPayloads :
          handleDeviceData(id, data) /\ quiet' = quiet \ {id} /\ UNCHANGED shadow
    \/ (\E id \in TargetIds, data \in StatusPayloads : handleDeviceStatus(id, data))
            /\ UNCHANGED <<shadow, quiet>>
    \/ (\E id \in TargetIds, action \in PumpActions : postPump(id, action))
            /\ UNCHANGED <<shadow, quiet>>
    \/ (\E id \in TargetIds, mode \in ModeValues : postMode(id, mode))
            /\ UNCHANGED <<shadow, quiet>>
    \/ (\E id \in TargetIds, action \in PumpActions : pumpControl(id, action))
            /\ UNCHANGED <<shadow, quiet>>
    \/ postDevices /\ UNCHANGED <<shadow, quiet>>
    \/ (\E id \in TargetIds : deleteDevices(id)) /\ UNCHANGED <<shadow, quiet>>
    \/ checkOfflineDevices /\ quiet' = quiet \cup demotedIds /\ UNCHANGED shadow
    \/ Advance(MaxSweepTicks) /\ UNCHANGED <<shadow, quiet>>
    \/ (\E t \in BagToSet(tasks) : Resume(t)) /\ UNCHANGED <<shadow, quiet>>

SpecSweeps == Init /\ [][NextSweeps]_vars

\* ------------------------------------------- the server running forever
\* Only the differences now - lastSweep and now - deviceLastSeen[id] are
\* ever read, against CHECK_INTERVAL and OFFLINE_TIMEOUT, and both are
\* exceeded by two ticks.  Once the clock is at the horizon, a further tick
\* is written as every such instant moving one tick into the past, no
\* further than two ticks.
Horizon == TickMs * (MaxTicks + 1)

Rebased(t) == IF t - TickMs < Horizon - 2 * TickMs THEN Horizon - 2 * TickMs
              ELSE t - TickMs

\* time passes, without end
Elapse ==
    /\ \A t \in BagToSet(tasks) : t.kind # "sweep" => t.waited < MaxDelay
    /\ IF now < Horizon
       THEN /\ now' = now + TickMs
            /\ UNCHANGED <<lastSweep, deviceLastSeen>>
       ELSE /\ now' = now
            /\ lastSweep' = Rebased(lastSweep)
            /\ deviceLastSeen' = [id \in DOMAIN deviceLastSeen |->
                                     Rebased(deviceLastSeen[id])]
    /\ tasks' = BagOfAll(Aged, tasks)
    /\ UNCHANGED <<useDatabase, memoryDevices, dbDevices, memorySensorHistory,
                   dbSensorHistory, mqttConnected, outbox, events, requests,
                   lastData, observer>>

\* the server at its start, or after its first telemetry message for
\* device_001, the last one the device ever sends
InitLive ==
    \E reported \in BOOLEAN :
        LET first == CHOOSE data \in TelemetryPayloads :
                        DOMAIN data = {"temperature", "humidity", "soilPercent"}
                                /\ data.soilPercent \in IntegerLiterals
        IN  /\ useDatabase \in BOOLEAN
            /\ now = TickMs
            /\ lastSweep = TickMs
            /\ memoryDevices =
                  IF reported /\ ~useDatabase
                  THEN memUpdate(<<DefaultRow(TickMs)>>, DEFAULT_DEVICE,
                                 dataUpdates(first), TickMs)
                  ELSE <<DefaultRow(TickMs)>>
            /\ dbDevices =
                  IF ~useDatabase THEN <<>>
                  ELSE IF reported
                       THEN dbUpdate(<<DefaultRow(TickMs)>>, DEFAULT_DEVICE,
                                     dataUpdates(first), TickMs)
                       ELSE <<DefaultRow(TickMs)>>
            /\ memorySensorHistory =
                  IF reported /\ ~useDatabase
                  THEN memStore(<<>>, DEFAULT_DEVICE, first, TickMs)
                  ELSE <<>>
            /\ dbSensorHistory =
                  IF reported /\ useDatabase
                  THEN <<historyRow(DEFAULT_DEVICE, first, TickMs)>>
                  ELSE <<>>
            /\ deviceLastSeen =
                  IF reported THEN SetLastSeen(<<>>, DEFAULT_DEVICE, TickMs)
                  ELSE <<>>
            /\ mqttConnected = FALSE
            /\ outbox = <<>>
            /\ events = <<>>
            /\ tasks = EmptyBag
            /\ requests = 0
            /\ lastData = IF reported
                          THEN [id \in {DEFAULT_DEVICE} |-> first] ELSE <<>>
            /\ observer = [pc |-> "none"]
            /\ shadow = [devices |-> <<DefaultRow(TickMs)>>, events |-> <<>>]
            /\ quiet = {}

\* pump commands, sweeps and the clock; the device sends nothing
NextLive ==
    \/ (\E id \in TargetIds, action \in PumpActions : postPump(id, action))
            /\ UNCHANGED <<shadow, quiet>>
    \/ (\E id \in TargetIds, action \in PumpActions : pumpControl(id, action))
            /\ UNCHANGED <<shadow, quiet>>
    \/ (\E t \in BagToSet(tasks) : postPump_found(t)) /\ UNCHANGED <<shadow, quiet>>
    \/ (\E t \in BagToSet(tasks) : postPump_updated(t)) /\ UNCHANGED <<shadow, quiet>>
    \/ (\E t \in BagToSet(tasks) : pumpControl_updated(t))
            /\ UNCHANGED <<shadow, quiet>>
    \/ checkOfflineDevices /\ UNCHANGED <<shadow, quiet>>
    \/ (\E t \in BagToSet(tasks) : checkOfflineDevices_updated(t))
            /\ UNCHANGED <<shadow, quiet>>
    \/ Elapse /\ UNCHANGED <<shadow, quiet>>

\* the interval timer keeps firing, time keeps passing and every storage
\* call returns
SpecLive ==
    /\ InitLive
    /\ [][NextLive]_vars
    /\ WF_vars(checkOfflineDevices /\ UNCHANGED <<shadow, quiet>>)
    /\ WF_vars(Elapse /\ UNCHANGED <<shadow, quiet>>)
    /\ WF_vars(\E t \in BagToSet(tasks) :
                 /\ \/ postPump_found(t) \/ postPump_updated(t)
                    \/ pumpControl_updated(t) \/ checkOfflineDevices_updated(t)
                 /\ UNCHANGED <<shadow, quiet>>)

\* ----------------------------------------------- reads of the registry
\* getDevices(): with the database, the rows mapped, or memoryDevices when
\* the select reports an error
getDevices(error) ==
    IF useDatabase /\ ~error
    THEN [i \in 1..Len(dbDevices) |-> mapDeviceFromDB(dbDevices[i])]
    ELSE memoryDevices

\* getDevice(id) with its outcomes: null when the select reports an error,
\* which it also does when no row matches; `find` gives undefined, written
\* as null here, when no element matches
getDeviceOrNull(id, error) ==
    IF useDatabase
    THEN IF error \/ FindIndex(dbDevices, id) = 0 THEN NullDevice
         ELSE mapDeviceFromDB(dbDevices[FindIndex(dbDevices, id)])
    ELSE IF FindIndex(memoryDevices, id) = 0 THEN NullDevice
         ELSE memoryDevices[FindIndex(memoryDevices, id)]

\* a storage call can report an error only where there is one
StorageErrors == IF useDatabase THEN BOOLEAN ELSE {FALSE}

\* ============================================================== claims
RegisteredIds == {Registry[i].id : i \in 1..Len(Registry)}

PumpOn(device) == "pumpActive" \in DOMAIN device /\ device.pumpActive = TRUE

\* the broadcast e carries a snapshot of device id
EventFor(e, id) == "id" \in DOMAIN e.payload /\ e.payload.id = id

\* positions of the broadcasts made by the step
Emitted == (Len(events) + 1)..Len(events')

Running == BagToSet(tasks)

\* a sweep demotes device id: at once in memory; with the database its
\* callback, which updates the row and broadcasts, is on its way
SweepDemotes(id) ==
    IF useDatabase
    THEN \E t \in BagToSet(tasks') : t.kind = "sweep" /\ t.id = id
    ELSE /\ Registered(id)'
         /\ getDevice(id)'.status = "offline"
         /\ Cardinality({k \in Emitted : EventFor(events'[k], id)}) = 1

\* C1 (as claimed): a sweep sets every registered device that is online or
\* watering and whose LastSeen entry is at least OFFLINE_TIMEOUT old to
\* offline, with exactly one deviceUpdate broadcast.
C1_SweepDemotesAtTimeout ==
    [][checkOfflineDevices =>
         \A id \in RegisteredIds :
            ( /\ getDevice(id).status \in {"online", "watering"}
              /\ id \in DOMAIN deviceLastSeen
              /\ now - deviceLastSeen[id] >= OFFLINE_TIMEOUT )
            => SweepDemotes(id)]_vars

\* a required telemetry field is missing or not a number
Malformed(data) ==
    \E f \in {"temperature", "humidity", "soilPercent"} :
        Get(data, f) \notin NumberLiterals

\* C2 (as claimed): a telemetry message with a missing or non-numeric
\* temperature, humidity or soilPercent changes no registry record, appends
\* no sample and makes no broadcast.
C2_MalformedDiscarded ==
    [][ ( \/ \E id \in TargetIds, data \in TelemetryPayloads :
                Malformed(data) /\ handleDeviceData(id, data)
          \/ \E t \in Running :
                /\ t.kind = "data"
                /\ Malformed(t.data)
                /\ handleDeviceData_updated(t) \/ handleDeviceData_stored(t) )
        => /\ Registry' = Registry
           /\ memorySensorHistory' = memorySensorHistory
           /\ dbSensorHistory' = dbSensorHistory
           /\ events' = events ]_vars

\* the registry holds the values of the message for device id, and every
\* other record is as before
HoldsValuesOf(id, data) ==
    /\ Registered(id)'
    /\ Get(getDevice(id)', "temperature") = Get(data, "temperature")
    /\ Get(getDevice(id)', "humidity") = Get(data, "humidity")
    /\ Get(getDevice(id)', "soilMoisture") = Get(data, "soilPercent")
    /\ PumpOn(getDevice(id)') = Truthy(data, "pumpActive")

OthersUntouched(id) ==
    /\ Len(Registry') = Len(Registry)
    /\ \A i \in 1..Len(Registry) : Registry[i].id # id => Registry'[i] = Registry[i]

\* a telemetry handler for the device has not yet written to the registry
WritePending(id) ==
    \E t \in BagToSet(tasks) : t.kind = "data" /\ t.pc = "update" /\ t.id = id

\* C3 (as claimed): once every telemetry handler for a registered device has
\* written, the registry holds the temperature, humidity, soilMoisture and
\* pumpActive of the last telemetry message received for that device (when
\* that message is well formed), and a telemetry message changes no other
\* device's record.
C3_LastMessageWins ==
    [][ /\ \A id \in RegisteredIds, data \in TelemetryPayloads :
              (~useDatabase /\ handleDeviceData(id, data))
              => /\ OthersUntouched(id)
                 /\ (~Malformed(data) => HoldsValuesOf(id, lastData'[id]))
        /\ \A t \in Running :
              ( /\ t.kind = "data" /\ t.pc = "update"
                /\ dbUpdateOk(dbDevices, t.id, dataUpdates(t.data), t.at)
                /\ handleDeviceData_updated(t) )
              => /\ OthersUntouched(t.id)
                 /\ (~Malformed(lastData[t.id]) /\ ~WritePending(t.id)')
                        => HoldsValuesOf(t.id, lastData[t.id]) ]_vars

\* C4 (as claimed): every device with pumpActive == true has status watering.
C4_PumpActiveImpliesWatering ==
    \A i \in 1..Len(Registry) :
        PumpOn(Registry[i]) => Registry[i].status = "watering"

\* C5 (as claimed): every device with status watering has pumpActive == true.
C5_WateringImpliesPumpActive ==
    \A i \in 1..Len(Registry) :
        Registry[i].status = "watering" => PumpOn(Registry[i])

\* C6 (as claimed): on every round, accepted telemetry makes the device
\* online or watering, and the sweep after a silence longer than
\* OFFLINE_TIMEOUT sets it to offline again.
C6_CycleEveryRound ==
    [][ /\ \A id \in RegisteredIds, data \in TelemetryPayloads :
              (~useDatabase /\ handleDeviceData(id, data))
              => getDevice(id)'.status \in {"online", "watering"}
        /\ \A t \in Running :
              ( /\ t.kind = "data" /\ t.pc = "update"
                /\ dbUpdateOk(dbDevices, t.id, dataUpdates(t.data), t.at)
                /\ handleDeviceData_updated(t) )
              => getDevice(t.id)'.status \in {"online", "watering"}
        /\ checkOfflineDevices =>
              \A id \in RegisteredIds :
                 ( /\ getDevice(id).status \in {"online", "watering"}
                   /\ id \in DOMAIN deviceLastSeen
                   /\ now - deviceLastSeen[id] > OFFLINE_TIMEOUT )
                 => SweepDemotes(id) ]_vars

\* C7: a registered device with no LastSeen entry is left as it is by every
\* step of a sweep, and no sweep broadcasts a snapshot of it.
C7_NeverReportedUntouched ==
    [][ (checkOfflineDevices \/ \E t \in Running : checkOfflineDevices_updated(t))
        => \A id \in RegisteredIds :
              id \notin DOMAIN deviceLastSeen
              => /\ Registered(id)'
                 /\ getDevice(id)' = getDevice(id)
                 /\ \A k \in Emitted : ~EventFor(events'[k], id) ]_vars

\* a sweep has demoted a device that reported, and left online a registered
\* device that never did
C7_Witness ==
    /\ lastSweep > TickMs
    /\ \E k \in 1..Len(events) :
          /\ events[k].kind = "deviceUpdate"
          /\ Get(events[k].payload, "status") = "offline"
    /\ \E id \in RegisteredIds :
          id \notin DOMAIN deviceLastSeen /\ getDevice(id).status = "online"

\* the registry and the broadcasts after a pump command took effect
PumpApplied(id, action) ==
    /\ Registered(id)'
    /\ PumpOn(getDevice(id)') = (action = "on")
    /\ getDevice(id)'.status = (IF action = "on" THEN "watering" ELSE "online")
    /\ events' = Append(events, Emit("deviceUpdate", getDevice(id)'))

\* C8: a pump command for a registered device, from the HTTP route or from
\* pumpControl, sets pumpActive as requested and status to watering / online
\* and makes one deviceUpdate broadcast, connected to the broker or not.
C8_PumpCommandApplied ==
    [][ /\ \A id \in RegisteredIds, action \in PumpActions :
              (~useDatabase /\ (postPump(id, action) \/ pumpControl(id, action)))
              => PumpApplied(id, action)
        /\ \A t \in Running :
              ( /\ t.kind \in {"pump", "socket"} /\ t.pc = "update"
                /\ Registered(t.id)
                /\ postPump_updated(t) \/ pumpControl_updated(t) )
              => PumpApplied(t.id, t.action) ]_vars

\* a pump-on command took effect on a device that never reported while
\* nothing was ever published
C8_Witness ==
    /\ outbox = <<>>
    /\ \E id \in RegisteredIds :
          /\ id \notin DOMAIN deviceLastSeen
          /\ PumpOn(getDevice(id))
          /\ getDevice(id).status = "watering"
          /\ \E k \in 1..Len(events) :
                events[k] = Emit("deviceUpdate", getDevice(id))

\* the step is a pump-on command for the registered device id reaching the
\* place where the command message is published
PumpOnIssued(id) ==
    /\ Registered(id)
    /\ \/ ~useDatabase /\ (postPump(id, "on") \/ pumpControl(id, "on"))
       \/ useDatabase /\ pumpControl(id, "on")
       \/ \E t \in Running :
             /\ t.kind = "pump" /\ t.pc = "get" /\ t.id = id /\ t.action = "on"
             /\ postPump_found(t)

PumpOnMessage(id) == [id |-> id, payload |-> [pump |-> TRUE]]

\* C9 (as claimed): every pump-on command for a registered device publishes
\* a command message for it, connected to the broker or not.
C9_AlwaysPublished ==
    [][ \A id \in RegisteredIds :
           PumpOnIssued(id) => outbox' = Append(outbox, PumpOnMessage(id)) ]_vars

\* C9 (amended): a pump-on command for a registered device publishes one
\* command message for it when the broker connection is up, and none when
\* it is down.
C9_PublishedWhenConnected ==
    [][ \A id \in RegisteredIds :
           PumpOnIssued(id) =>
              outbox' = IF mqttConnected THEN Append(outbox, PumpOnMessage(id))
                        ELSE outbox ]_vars

\* of two pump-on commands that took effect, one was published and the
\* other dropped
C9_Witness ==
    /\ requests = 2
    /\ Len(events) = 2
    /\ \E id \in RegisteredIds :
          /\ outbox = <<PumpOnMessage(id)>>
          /\ PumpOn(getDevice(id))
          /\ \A k \in 1..2 : EventFor(events[k], id) /\ PumpOn(events[k].payload)

\* C10 (as claimed): a pump or mode command naming an id that is not in the
\* registry publishes nothing, changes no record and makes no broadcast,
\* whether it comes by the pump route, the mode route or pumpControl.
C10_UnknownDeviceNoEffect ==
    [][ \A id \in TargetIds :
           ( /\ ~Registered(id)
             /\ \/ \E action \in PumpActions : postPump(id, action) \/ pumpControl(id, action)
                \/ \E mode \in ModeValues : postMode(id, mode)
                \/ \E t \in Running :
                      \/ t.kind = "pump" /\ t.pc = "get" /\ t.id = id
                            /\ postPump_found(t)
                      \/ t.kind = "mode" /\ t.pc = "get" /\ t.id = id
                            /\ postMode_found(t)
                      \/ t.kind = "socket" /\ t.id = id
                            /\ pumpControl_updated(t) )
           => /\ outbox' = outbox
              /\ Registry' = Registry
              /\ events' = events ]_vars

\* C11: a callback of the sweep whose device was deleted after the sweep
\* chose to demote it still runs to its end, and the device stays absent
\* from the registry; in the in-memory mode a sweep never adds a record.
C11_DeletedStaysDeleted ==
    [][ /\ \A t \in Running :
              ( /\ t.kind = "sweep"
                /\ ~Registered(t.id)
                /\ checkOfflineDevices_updated(t) )
              => /\ ~Registered(t.id)'
                 /\ Registry' = Registry
                 /\ tasks' = tasks (-) SetToBag({t})
        /\ checkOfflineDevices =>
              \A id \in TargetIds : ~Registered(id) => ~Registered(id)' ]_vars

\* the device was deleted while the storage update of the sweep was pending,
\* and the callback of the sweep has run since
C11_Witness ==
    /\ useDatabase
    /\ tasks = EmptyBag
    /\ \E id \in TargetIds :
          /\ ~Registered(id)
          /\ \E j, k \in 1..Len(events) :
                /\ j < k
                /\ events[j] = Emit("deviceDeleted", [id |-> id])
                /\ events[k].kind = "deviceUpdate"
                /\ EventFor(events[k], id)
                /\ events[k].payload.status = "offline"

\* positions of the broadcasts that carry device id
EventsFor(id) == {k \in 1..Len(events) : EventFor(events[k], id)}

LastEventFor(id) == events[CHOOSE k \in EventsFor(id) : \A j \in EventsFor(id) : j <= k]

\* C12 (as claimed): every mutation of a device's record is broadcast exactly
\* once and the broadcasts for one device are in the order of the mutations,
\* overlapping handlers included; so, once no handler is suspended, the last
\* broadcast for a registered device carries the record the registry holds.
C12_EventsInMutationOrder ==
    tasks = EmptyBag =>
        \A id \in RegisteredIds :
            EventsFor(id) # {} => LastEventFor(id).payload = getDevice(id)

\* C13: when the history insert of a telemetry handler fails, the step
\* leaves the registry as the update made it, makes the deviceUpdate
\* broadcast of that update, and the handler ends.
C13_HistoryFailureKeepsUpdate ==
    [][ \A t \in Running :
           ( /\ t.kind = "data" /\ t.pc = "store"
             /\ handleDeviceData_stored(t) \/ handleDeviceData_storeFailed(t)
             /\ dbSensorHistory' = dbSensorHistory )
           => /\ Registry' = Registry
              /\ events' = Append(events, Emit("deviceUpdate", t.device))
              /\ tasks' = tasks (-) SetToBag({t}) ]_vars

\* a well-formed telemetry message was applied and broadcast, and no sample
\* of it was stored
C13_Witness ==
    /\ useDatabase
    /\ tasks = EmptyBag
    /\ dbSensorHistory = <<>>
    /\ \E id \in RegisteredIds :
          /\ id \in DOMAIN lastData
          /\ ~Malformed(lastData[id])
          /\ getDevice(id).temperature = lastData[id].temperature
          /\ EventsFor(id) # {}
          /\ LastEventFor(id) = Emit("deviceUpdate", getDevice(id))

\* C14: a telemetry message for an id that is not in the registry adds no
\* record, stores no sample and makes no broadcast, and its handler ends
\* there.
C14_UnknownTelemetryIgnored ==
    [][ /\ \A id \in TargetIds, data \in TelemetryPayloads :
              (~useDatabase /\ ~Registered(id) /\ handleDeviceData(id, data))
              => /\ Registry' = Registry
                 /\ memorySensorHistory' = memorySensorHistory
                 /\ events' = events
                 /\ tasks' = tasks
        /\ \A t \in Running :
              ( /\ t.kind = "data" /\ t.pc = "update"
                /\ ~Registered(t.id)
                /\ handleDeviceData_updated(t) )
              => /\ Registry' = Registry
                 /\ dbSensorHistory' = dbSensorHistory
                 /\ events' = events
                 /\ tasks' = tasks (-) SetToBag({t}) ]_vars

\* telemetry for the id no operation registers was received and handled
C14_Witness ==
    /\ UNKNOWN_DEVICE \in DOMAIN lastData
    /\ ~Registered(UNKNOWN_DEVICE)
    /\ tasks = EmptyBag
    /\ events = <<>>
    /\ Len(Registry) = 1

\* no two records of the registry have the same id
UniqueIds ==
    \A i, j \in 1..Len(Registry) : Registry[i].id = Registry[j].id => i = j

\* C15 (as claimed): creating a device whose id is already in the registry
\* fails, leaving the registry and the broadcasts as they were, so that the
\* registry never holds two records with the same id.
C15_DuplicateIdRejected ==
    [][ /\ (~useDatabase /\ postDevices /\ Registered(now))
              => Registry' = Registry /\ events' = events
        /\ \A t \in Running :
              ( /\ t.kind = "create"
                /\ Registered(t.device.id)
                /\ postDevices_created(t) )
              => Registry' = Registry /\ events' = events
        /\ UniqueIds' ]_vars

\* the fields updateDevice can be asked to write
PatchFields == {"temperature", "humidity", "soilMoisture", "pumpActive", "status", "mode"}

\* the step turned the record of device id into its merge with the patch:
\* the fields the patch gives a value are set to it, lastUpdate is t, every
\* other field is as before, and so is every other record
MergedInto(id, patch, t) ==
    LET old == getDevice(id)
        new == getDevice(id)'
    IN  /\ Registered(id)'
        /\ \A f \in PatchFields :
              IF Defined(patch, f)
              THEN f \in DOMAIN new /\ new[f] = patch[f]
              ELSE /\ (f \in DOMAIN new) = (f \in DOMAIN old)
                   /\ f \in DOMAIN old => new[f] = old[f]
        /\ new.lastUpdate = t
        /\ \A f \in (DOMAIN old) \ (PatchFields \cup {"lastUpdate"}) :
              f \in DOMAIN new /\ new[f] = old[f]
        /\ OthersUntouched(id)

\* C16 (as claimed): a successful update changes exactly the fields its patch
\* gives, refreshes lastUpdate, keeps every other field of the record and
\* every other record; checked for every caller of updateDevice.
C16_UpdateIsPartialMerge ==
    [][ /\ \A id \in RegisteredIds :
              ~useDatabase =>
                 /\ \A data \in TelemetryPayloads :
                       handleDeviceData(id, data)
                       => MergedInto(id, dataUpdates(data), now)
                 /\ \A data \in StatusPayloads :
                       handleDeviceStatus(id, data)
                       => MergedInto(id, [status |-> Get(data, "status")], now)
                 /\ \A action \in PumpActions :
                       (postPump(id, action) \/ pumpControl(id, action))
                       => MergedInto(id, pumpUpdates(action), now)
                 /\ \A mode \in ModeValues :
                       postMode(id, mode) => MergedInto(id, [mode |-> mode], now)
        /\ \A t \in Running :
              (t.kind # "create" /\ t.pc = "update" /\ Registered(t.id)) =>
                 /\ ( /\ t.kind = "data"
                      /\ dbUpdateOk(dbDevices, t.id, dataUpdates(t.data), t.at)
                      /\ handleDeviceData_updated(t) )
                    => MergedInto(t.id, dataUpdates(t.data), t.at)
                 /\ (t.kind = "status" /\ handleDeviceStatus_updated(t))
                    => MergedInto(t.id, [status |-> Get(t.data, "status")], t.at)
                 /\ ( /\ t.kind \in {"pump", "socket"}
                      /\ postPump_updated(t) \/ pumpControl_updated(t) )
                    => MergedInto(t.id, pumpUpdates(t.action), t.at)
                 /\ (t.kind = "mode" /\ postMode_updated(t))
                    => MergedInto(t.id, [mode |-> t.mode], t.at) ]_vars

\* the limits and the dates a history query is made with
QueryLimits == 0..2
QueryDates == {TickMs * k : k \in 1..(MaxTicks + 1)}

\* the timestamps of the samples stored for device id
SamplesOf(id) ==
    IF useDatabase
    THEN {dbSensorHistory[i].recorded_at :
              i \in {j \in 1..Len(dbSensorHistory) : dbSensorHistory[j].device_id = id}}
    ELSE IF id \in DOMAIN memorySensorHistory
         THEN {memorySensorHistory[id][i].timestamp :
                   i \in 1..Len(memorySensorHistory[id])}
         ELSE {}

\* C17 (as claimed): a history query with start and end dates and a limit
\* returns samples of the device only, all with a timestamp in [start, end],
\* in chronological order, and never more than limit of them, limit 0
\* included.
C17_HistoryQueryBounded ==
    \A id \in TargetIds, limit \in QueryLimits, startDate \in QueryDates,
       endDate \in QueryDates :
        LET result == getSensorHistory(id, limit, startDate, endDate)
        IN  /\ Len(result) <= limit
            /\ \A i \in 1..Len(result) :
                  /\ result[i].timestamp >= startDate
                  /\ result[i].timestamp <= endDate
                  /\ result[i].timestamp \in SamplesOf(id)
            /\ \A i \in 1..(Len(result) - 1) :
                  result[i].timestamp <= result[i + 1].timestamp

\* the sample the in-memory store appends for a telemetry message
SampleOf(data, t) ==
    [timestamp |-> t, temperature |-> Get(data, "temperature"),
     humidity |-> Get(data, "humidity"), soilMoisture |-> Get(data, "soilPercent")]

\* C18: in the in-memory mode a telemetry message for a registered device
\* leaves the device's history with the most recent HISTORY_LIMIT samples of
\* the old history followed by the new sample, never more than
\* HISTORY_LIMIT, and leaves the history of every other device as it was.
C18_HistoryKeepsLast720 ==
    [][ \A id \in RegisteredIds, data \in TelemetryPayloads :
           (~useDatabase /\ handleDeviceData(id, data)) =>
              LET old == IF id \in DOMAIN memorySensorHistory
                         THEN memorySensorHistory[id] ELSE <<>>
                  all == Append(old, SampleOf(data, now))
                  new == memorySensorHistory'[id]
              IN  /\ Len(new) <= HISTORY_LIMIT
                  /\ Len(new) = (IF Len(all) < HISTORY_LIMIT THEN Len(all)
                                 ELSE HISTORY_LIMIT)
                  /\ \A i \in 1..Len(new) : new[i] = all[Len(all) - Len(new) + i]
                  /\ \A x \in DOMAIN memorySensorHistory :
                        x # id => memorySensorHistory'[x] = memorySensorHistory[x]
      ]_vars

\* the history of device_001 is full and its oldest samples were dropped
C18_Witness ==
    /\ ~useDatabase
    /\ DEFAULT_DEVICE \in DOMAIN memorySensorHistory
    /\ Len(memorySensorHistory[DEFAULT_DEVICE]) = HISTORY_LIMIT
    /\ memorySensorHistory[DEFAULT_DEVICE][1].timestamp > 1
    /\ memorySensorHistory[DEFAULT_DEVICE][HISTORY_LIMIT].timestamp = now

\* C19 (as claimed): once a connected client has got initialData and every
\* broadcast made since it connected, and no handler is suspended, the
\* client holds exactly the devices of the registry, each with the record
\* the registry holds.
C19_ObserverMatchesRegistry ==
    (observer.pc = "live" /\ tasks = EmptyBag) =>
        /\ {clientDevices[i].id : i \in 1..Len(clientDevices)} = RegisteredIds
        /\ \A id \in RegisteredIds :
              clientDevices[FindIndex(clientDevices, id)] = getDevice(id)

\* C20 (as claimed): given the same registrations, telemetry, commands,
\* deletions and sweeps, the server with the database and the in-memory
\* server have, whenever no handler is suspended, the same devices as get
\* and list return them and have made the same broadcasts in the same order.
C20_ModesAgree ==
    tasks = EmptyBag =>
        /\ Registry = shadow.devices
        /\ events = shadow.events

\* the step is the registry write of a telemetry handler for device id
IngestWrites(id) ==
    \/ ~useDatabase /\ \E data \in TelemetryPayloads : handleDeviceData(id, data)
    \/ \E t \in Running :
          /\ t.kind = "data" /\ t.pc = "update" /\ t.id = id
          /\ handleDeviceData_updated(t)

\* C21 (as claimed): a step that takes a registered device from offline to
\* online or watering is the ingest of a telemetry message for that device;
\* pump commands, mode commands, status messages and sweeps leave an offline
\* device offline.
C21_OnlyTelemetryRevives ==
    [][ \A id \in RegisteredIds :
           ( /\ getDevice(id).status = "offline"
             /\ Registered(id)'
             /\ getDevice(id)'.status \in {"online", "watering"} )
           => IngestWrites(id) ]_vars

\* the step neither changes the record of device id, nor broadcasts a
\* snapshot of it, nor starts a storage update for it
LeftAlone(id) ==
    /\ Registered(id) => (Registered(id)' /\ getDevice(id)' = getDevice(id))
    /\ \A k \in Emitted : ~EventFor(events'[k], id)
    /\ \A t \in BagToSet(tasks') :
          (t.kind = "sweep" /\ t.id = id) => CopiesIn(t, tasks') = CopiesIn(t, tasks)

\* C22 (as claimed): a sweep that fires after a device was set offline by an
\* earlier sweep, the device having sent no telemetry since, leaves the
\* record of that device as it is and broadcasts nothing for it.
C22_NoRepeatedOfflineEvent ==
    [][ checkOfflineDevices => \A id \in quiet : LeftAlone(id) ]_vars

\* the last broadcast for device id is that of a command that set it to
\* online or watering, and the registry holds that status
PumpedActive(id) ==
    /\ Registered(id)
    /\ getDevice(id).status \in {"online", "watering"}
    /\ EventsFor(id) # {}
    /\ LastEventFor(id).kind = "deviceUpdate"
    /\ LastEventFor(id).payload.status \in {"online", "watering"}

\* C23 (as claimed): when a pump command has set device_001 to online or
\* watering and the device sends no telemetry afterwards, the sweeps of a
\* timer that keeps firing eventually set it to offline, whether the device
\* has ever reported or not.
C23_PumpedSilentGoesOffline ==
    PumpedActive(DEFAULT_DEVICE) ~> (getDevice(DEFAULT_DEVICE).status = "offline")

\* the step is the last one of a telemetry handler with the database, whose
\* broadcast carries the record its update returned one storage call earlier
IngestBroadcasts ==
    \E t \in Running :
        /\ t.kind = "data" /\ t.pc = "store"
        /\ handleDeviceData_stored(t)

\* C24 (as claimed): every deviceUpdate broadcast carries a device, never
\* null, and that device is the record the registry holds right after the
\* update that made the broadcast; this for telemetry, for pump and mode
\* commands (a failed update and a device deleted meanwhile included) and
\* for the sweep.
C24_UpdatedCarriesRecord ==
    [][ \A k \in Emitted :
           events'[k].kind = "deviceUpdate" =>
              /\ events'[k].payload # NullDevice
              /\ "id" \in DOMAIN events'[k].payload
              /\ ~IngestBroadcasts =>
                    /\ FindIndex(Registry', events'[k].payload.id) # 0
                    /\ events'[k].payload =
                          Registry'[FindIndex(Registry', events'[k].payload.id)] ]_vars

\* C25 (as claimed): the interval timer never runs a sweep while a callback
\* of an earlier sweep is still waiting for its storage update; such a tick
\* is skipped, or held back until that sweep has finished.
C25_SweepsNeverOverlap ==
    [][ checkOfflineDevices => \A t \in Running : t.kind # "sweep" ]_vars

\* the step adds the LastSeen entry of id or changes it
LastSeenWritten(id) ==
    /\ id \in DOMAIN deviceLastSeen'
    /\ id \in DOMAIN deviceLastSeen => deviceLastSeen'[id] # deviceLastSeen[id]

\* the registry update of a telemetry message received now cannot succeed:
\* in memory the id is not registered; with the database a column rejects a
\* value, or the id is one that is never registered
UpdateFails(id, data) ==
    IF useDatabase
    THEN ~TypeChecks(dbUpdatesOf(dataUpdates(data), now)) \/ id = UNKNOWN_DEVICE
    ELSE ~Registered(id)

\* C26 (as claimed): a LastSeen entry is added or changed only by the ingest
\* of a telemetry message for that id, and a message whose registry update
\* does not succeed writes no entry.
C26_LastSeenOnlyAccepted ==
    [][ \A id \in TargetIds :
           /\ LastSeenWritten(id) =>
                 \E data \in TelemetryPayloads : handleDeviceData(id, data)
           /\ \A data \in TelemetryPayloads :
                 (handleDeviceData(id, data) /\ UpdateFails(id, data))
                 => deviceLastSeen' = deviceLastSeen ]_vars

\* the step is one of a sweep: its pass over the devices, or a callback
\* coming back from its storage update
SweepStep == checkOfflineDevices \/ \E t \in Running : checkOfflineDevices_updated(t)

\* the times a demotion made by the step can stamp on a record
DemotionTimes == {now} \cup {t.at : t \in {x \in Running : x.kind = "sweep"}}

\* the step leaves every record in its place and, status and lastUpdate
\* apart, with the fields it had
OnlyStatusChanges ==
    /\ Len(Registry') = Len(Registry)
    /\ \A i \in 1..Len(Registry) :
          \A f \in (DOMAIN Registry[i]) \ {"status", "lastUpdate"} :
              f \in DOMAIN Registry'[i] /\ Registry'[i][f] = Registry[i][f]

\* a record the step changed is offline and has a fresh lastUpdate
ChangedAreDemoted ==
    \A i \in 1..Len(Registry) :
        Registry'[i] # Registry[i] =>
            /\ Registry'[i].status = "offline"
            /\ "lastUpdate" \in DOMAIN Registry'[i]
            /\ Registry'[i].lastUpdate \in DemotionTimes

\* C27 (as claimed): a step of a sweep adds and removes no record, changes
\* only the status and lastUpdate of the devices it demotes, refreshing
\* lastUpdate as every update does, and leaves LastSeen and the history as
\* they are.
C27_SweepOnlyDemotes ==
    [][ SweepStep =>
          /\ OnlyStatusChanges
          /\ ChangedAreDemoted
          /\ deviceLastSeen' = deviceLastSeen
          /\ memorySensorHistory' = memorySensorHistory
          /\ dbSensorHistory' = dbSensorHistory ]_vars

\* the step set the mode of device id and stamped its lastUpdate, and left
\* the rest of the record, every other record, LastSeen and the history
ModeOnly(id, mode, t) ==
    LET old == getDevice(id)
        new == getDevice(id)'
    IN  /\ Registered(id)'
        /\ new.mode = mode
        /\ new.lastUpdate = t
        /\ DOMAIN new = (DOMAIN old) \cup {"lastUpdate"}
        /\ \A f \in (DOMAIN old) \ {"mode", "lastUpdate"} : new[f] = old[f]
        /\ OthersUntouched(id)
        /\ deviceLastSeen' = deviceLastSeen
        /\ memorySensorHistory' = memorySensorHistory
        /\ dbSensorHistory' = dbSensorHistory

\* C28: a mode command for a registered device sets the mode and lastUpdate
\* of that device and nothing else: status, pumpActive, the sensor values,
\* every other record, LastSeen and the history stay as they are.
C28_ModeCommandSetsModeOnly ==
    [][ /\ \A id \in RegisteredIds, mode \in ModeValues :
              (~useDatabase /\ postMode(id, mode)) => ModeOnly(id, mode, now)
        /\ \A t \in Running :
              ( /\ t.kind = "mode" /\ t.pc = "update"
                /\ Registered(t.id)
                /\ postMode_updated(t) )
              => ModeOnly(t.id, t.mode, t.at) ]_vars

\* a device that reported its pump running was put in manual mode and is
\* still watering
C28_Witness ==
    /\ tasks = EmptyBag
    /\ \E id \in RegisteredIds :
          /\ id \in DOMAIN deviceLastSeen
          /\ getDevice(id).mode = "manual"
          /\ getDevice(id).status = "watering"
          /\ PumpOn(getDevice(id))
          /\ EventsFor(id) # {}
          /\ LastEventFor(id) = Emit("deviceUpdate", getDevice(id))

\* C29 (as claimed): in every state every device has a status among online,
\* offline and watering and a mode among auto and manual, whatever the
\* telemetry, the status messages and the commands carry.
C29_StatusAndModeEnumerated ==
    \A i \in 1..Len(Registry) :
        /\ Registry[i].status \in {"online", "offline", "watering"}
        /\ Registry[i].mode \in {"auto", "manual"}

\* C30 (as claimed): once deviceDeleted was broadcast for an id, no
\* deviceUpdate for that id is broadcast afterwards, unless the id was added
\* again in between; this also when a telemetry handler, a command or a
\* callback of the sweep for the device was waiting for storage at the time
\* of the deletion.
C30_NoUpdateAfterDeleted ==
    \A j, k \in 1..Len(events) :
        ( /\ j < k
          /\ events[j].kind = "deviceDeleted"
          /\ events[k].kind = "deviceUpdate"
          /\ EventFor(events[k], events[j].payload.id) )
        => \E m \in (j + 1)..(k - 1) :
              /\ events[m].kind = "deviceAdded"
              /\ events[m].payload.id = events[j].payload.id

\* the list holds a device with this id exactly when get returns one, and
\* then every element of the list with this id is the record get returns
Agree(list, id, got) ==
    /\ (\E i \in 1..Len(list) : list[i].id = id) <=> (got # NullDevice)
    /\ \A i \in 1..Len(list) : list[i].id = id => list[i] = got

\* C31 (as claimed): in every state, for every id, getDevices() holds a
\* device with that id exactly when getDevice(id) returns one, with the same
\* field values, whether or not the storage call of either reports an error.
C31_ListAndGetAgree ==
    \A id \in TargetIds, listError \in StorageErrors, getError \in StorageErrors :
        Agree(getDevices(listError), id, getDeviceOrNull(id, getError))

=============================================================================
